---- MODULE Spec2Model ----
(***************************************************************************)
(* The round state machine, the gesture classifier and the score counters  *)
(* of the App component of src/src/App.jsx (the component that starts at   *)
(* line 250).                                                              *)
(*                                                                         *)
(* Time is counted in ticks of 100 ms: the setTimeout delays of 1000,      *)
(* 1200, 1500 and 4000 ms are 10, 12, 15 and 40 ticks.  A timer fires when *)
(* its remaining time is 0; time does not advance past a due timer, and    *)
(* timers due at the same tick fire in either order.  Inputs (the user's   *)
(* clicks, the answers of getUserMedia, createDetector and estimateHands)  *)
(* arrive at every InputPeriod-th tick, after any delay; playRound is      *)
(* accepted at most MaxRounds times.                                       *)
(***************************************************************************)
EXTENDS Integers, Sequences, FiniteSets, TLC

\* ---------------------------------------------------------------- bounds
\* Rounds that playRound accepts in one behaviour.
MaxRounds == 2
\* The user's clicks and the detector's answers arrive every InputPeriod ticks.
InputPeriod == 5

\* ------------------------------------------------------ program constants
\* countdown === null (useState(null), setCountdown(null)).
Null == -1
\* setCountdown(3) in playRound.
CountdownStart == 3
\* setTimeout(..., 1000) of the countdown effect, in ticks.
CountdownDelay == 10
\* setTimeout(..., 1200): the reveal.
RevealDelay == 12
\* setTimeout(() => setCountdown(null), 1500): no hand / unclear gesture.
MessageDelay == 15
\* setTimeout(() => setCountdown(null), 4000): end of a revealed round.
RoundDelay == 40
\* keypoints.length < 21
NumLandmarks == 21
\* keypoints[i].y < wristY - 40
Threshold == 40
\* cdTimer when the countdown effect holds no timer.
NoTimer == -1

MOVES == <<"Rock", "Paper", "Scissors">>
Placeholder == "?"
\* classifyGesture's null.
NullGesture == "null"
\* gesture before any classifyGesture call.
Unset == "unset"

MsgStart == "Click PLAY to start!"
MsgCamera == "Camera access required!"
MsgModel == "AI model failed to load!"
MsgAnalyzing == "Analyzing your move..."
MsgNoHand == "No hand detected! Try again."
MsgUnclear == "Unclear gesture! Hold steady next time."
MsgChoosing == "AI is choosing..."
MsgTie == "It's a TIE!"
MsgWin == "YOU WIN!"
MsgLose == "AI WINS!"
MsgReady == "Get ready..."
MsgReset == "Scores reset! Play again."

VARIABLES
    detector,      \* TRUE when the detector state is not null
    countdown,     \* Null, or 3, 2, 1, 0
    playerMove, aiMove, result, playerScore, aiScore,
    modelPc,       \* loadModel: "loading" or "done"
    cameraPc,      \* setupCamera: "asking" or "done"
    cdTimer,       \* remaining ticks of the countdown effect's timer, or NoTimer
    phase,         \* ticks since the last instant at which inputs arrive
    pending,       \* capturePose's pending continuations and timers
    gesture,       \* the value of the classifyGesture call made on its own
    \* history variables
    op,            \* the handler that ran last
    hands,         \* what estimateHands resolved with, when that handler was
                   \* capturePose's continuation; <<>> otherwise
    started,       \* rounds accepted by playRound; the id of the latest round
    captures,      \* capturePose calls made for the latest round
    wins, loses,   \* reveals with winnerText WIN / AI WINS since the last resetScores
    everReset      \* resetScores has been invoked

vars == <<detector, countdown, playerMove, aiMove, result, playerScore, aiScore,
          modelPc, cameraPc, cdTimer, phase, pending, gesture,
          op, hands, started, captures, wins, loses, everReset>>

\* ------------------------------------------------------------- landmarks
\* keypoints[i] with the source's 0-based index.
KP(keypoints, i) == keypoints[i + 1]

\* A pose of n landmarks: wrist (0) at wy, the tips 4, 8, 12, 16, 20 at
\* ty, iy, my, ry, py, every other landmark at the wrist's height, all at x.
MkPose(n, wy, ty, iy, my, ry, py, x) ==
    [k \in 1..n |->
        [x |-> x,
         y |-> CASE k = 1 -> wy
                 [] k = 5 -> ty
                 [] k = 9 -> iy
                 [] k = 13 -> my
                 [] k = 17 -> ry
                 [] k = 21 -> py
                 [] OTHER -> wy]]

\* ---------------------------------------------------------- classifyGesture
\* classifyGesture rejecting every landmark count but 21.
classifyGesture_ExactCount(keypoints) ==
    IF Len(keypoints) # NumLandmarks THEN NullGesture
    ELSE
    LET wristY == KP(keypoints, 0).y
        indexTip == KP(keypoints, 8).y < wristY - Threshold
        middleTip == KP(keypoints, 12).y < wristY - Threshold
        ringTip == KP(keypoints, 16).y < wristY - Threshold
        pinkyTip == KP(keypoints, 20).y < wristY - Threshold
        extendedFingers == (IF indexTip THEN 1 ELSE 0) + (IF middleTip THEN 1 ELSE 0)
                           + (IF ringTip THEN 1 ELSE 0) + (IF pinkyTip THEN 1 ELSE 0)
    IN  IF extendedFingers = 0 THEN "Rock"
        ELSE IF extendedFingers >= 3 THEN "Paper"
        ELSE IF indexTip /\ middleTip /\ ~ringTip /\ ~pinkyTip THEN "Scissors"
        ELSE NullGesture

\* classifyGesture taking any two extended fingers for Scissors (the count
\* test of the component's first version).
classifyGesture_AnyTwo(keypoints) ==
    IF Len(keypoints) < NumLandmarks THEN NullGesture
    ELSE
    LET wristY == KP(keypoints, 0).y
        indexTip == KP(keypoints, 8).y < wristY - Threshold
        middleTip == KP(keypoints, 12).y < wristY - Threshold
        ringTip == KP(keypoints, 16).y < wristY - Threshold
        pinkyTip == KP(keypoints, 20).y < wristY - Threshold
        extendedFingers == (IF indexTip THEN 1 ELSE 0) + (IF middleTip THEN 1 ELSE 0)
                           + (IF ringTip THEN 1 ELSE 0) + (IF pinkyTip THEN 1 ELSE 0)
    IN  IF extendedFingers = 0 THEN "Rock"
        ELSE IF extendedFingers >= 3 THEN "Paper"
        ELSE IF extendedFingers = 2 THEN "Scissors"
        ELSE NullGesture

\* classifyGesture comparing with <= : a tip on the threshold counts as
\* extended.
classifyGesture_Inclusive(keypoints) ==
    IF Len(keypoints) < NumLandmarks THEN NullGesture
    ELSE
    LET wristY == KP(keypoints, 0).y
        indexTip == KP(keypoints, 8).y <= wristY - Threshold
        middleTip == KP(keypoints, 12).y <= wristY - Threshold
        ringTip == KP(keypoints, 16).y <= wristY - Threshold
        pinkyTip == KP(keypoints, 20).y <= wristY - Threshold
        extendedFingers == (IF indexTip THEN 1 ELSE 0) + (IF middleTip THEN 1 ELSE 0)
                           + (IF ringTip THEN 1 ELSE 0) + (IF pinkyTip THEN 1 ELSE 0)
    IN  IF extendedFingers = 0 THEN "Rock"
        ELSE IF extendedFingers >= 3 THEN "Paper"
        ELSE IF indexTip /\ middleTip /\ ~ringTip /\ ~pinkyTip THEN "Scissors"
        ELSE NullGesture

classifyGesture(keypoints) ==
    IF Len(keypoints) < NumLandmarks THEN NullGesture
    ELSE
    LET wristY == KP(keypoints, 0).y
        indexTip == KP(keypoints, 8).y < wristY - Threshold
        middleTip == KP(keypoints, 12).y < wristY - Threshold
        ringTip == KP(keypoints, 16).y < wristY - Threshold
        pinkyTip == KP(keypoints, 20).y < wristY - Threshold
        extendedFingers == (IF indexTip THEN 1 ELSE 0) + (IF middleTip THEN 1 ELSE 0)
                           + (IF ringTip THEN 1 ELSE 0) + (IF pinkyTip THEN 1 ELSE 0)
    IN  IF extendedFingers = 0 THEN "Rock"
        ELSE IF extendedFingers >= 3 THEN "Paper"
        ELSE IF indexTip /\ middleTip /\ ~ringTip /\ ~pinkyTip THEN "Scissors"
        ELSE NullGesture

\* ------------------------------------------------------------ the outcome
\* playerWins with the Scissors / Paper pair the wrong way round.
playerWins_PaperCutsScissors(g, aiChoice) ==
    \/ g = "Rock" /\ aiChoice = "Scissors"
    \/ g = "Paper" /\ aiChoice = "Rock"
    \/ g = "Paper" /\ aiChoice = "Scissors"

\* const playerWins = ... of the reveal callback.
playerWins(g, aiChoice) ==
    \/ g = "Rock" /\ aiChoice = "Scissors"
    \/ g = "Paper" /\ aiChoice = "Rock"
    \/ g = "Scissors" /\ aiChoice = "Paper"

winnerText(g, aiChoice) ==
    IF g = aiChoice THEN MsgTie
    ELSE IF playerWins(g, aiChoice) THEN MsgWin
    ELSE MsgLose

\* -------------------------------------------------------------- the inputs
\* What estimateHands resolves with during a round: no hand, or one hand
\* (maxHands: 1) whose keypoints are one of these poses.
RoundPoses ==
    { MkPose(21, 240, 240, 230, 230, 230, 230, 0),     \* fist
      MkPose(21, 240, 100, 100, 100, 100, 100, 0),     \* open hand
      MkPose(21, 240, 240, 100, 100, 230, 230, 0),     \* index and middle
      MkPose(21, 240, 240, 100, 230, 230, 230, 0),     \* index only
      MkPose(20, 240, 240, 100, 100, 230, 230, 0),     \* a landmark short
      MkPose(22, 240, 240, 100, 100, 230, 230, 0) }    \* a landmark more

Hands == { <<>> } \cup { <<p>> : p \in RoundPoses }

\* ------------------------------------------------------------------- Init
Init ==
    /\ detector = FALSE
    /\ countdown = Null
    /\ playerMove = Placeholder
    /\ aiMove = Placeholder
    /\ result = MsgStart
    /\ playerScore = 0
    /\ aiScore = 0
    /\ modelPc = "loading"
    /\ cameraPc = "asking"
    /\ cdTimer = NoTimer
    /\ phase = 0
    /\ pending = {}
    /\ hands = <<>>
    /\ gesture = Unset
    /\ op = "mount"
    /\ started = 0
    /\ captures = 0
    /\ wins = 0
    /\ loses = 0
    /\ everReset = FALSE

\* ----------------------------------------------------------- the effects
\* The countdown effect setting its timer for the first value only.
TimerFor_NoRearm(c) == IF c = CountdownStart THEN CountdownDelay ELSE NoTimer

\* The countdown effect after countdown became c: its cleanup clears the old
\* timer, and a new one is set when c > 0.
TimerFor(c) == IF c > 0 THEN CountdownDelay ELSE NoTimer

\* The capture effect testing countdown > 1 instead of countdown !== 0: it
\* runs capturePose at 1 and again at 0.
Captures_OffByOne(old, new) == new \in {0, 1} /\ old # new /\ detector

\* The capture effect with its detector test inverted: it returns when the
\* detector is loaded, so capturePose is never called.
Captures_DetectorTestInverted(old, new) == new = 0 /\ old # 0 /\ ~detector

\* The capture effect runs capturePose when countdown became 0.
Captures(old, new) == new = 0 /\ old # 0 /\ detector

\* ---------------------------------------------------------------- startup
\* setupCamera: getUserMedia resolves, or rejects and the catch sets result.
SetupCamera ==
    /\ phase = 0
    /\ cameraPc = "asking"
    /\ cameraPc' = "done"
    /\ \/ result' = result
       \/ result' = MsgCamera
    /\ op' = "setupCamera"
    /\ UNCHANGED everReset
    /\ hands' = <<>>
    /\ UNCHANGED <<detector, countdown, playerMove, aiMove, playerScore, aiScore,
                   modelPc, cdTimer, phase, pending, gesture,
                   started, captures, wins, loses>>

\* loadModel: createDetector resolves and setDetector(det) runs, or the catch
\* sets result.
LoadModel ==
    /\ phase = 0
    /\ modelPc = "loading"
    /\ modelPc' = "done"
    /\ \/ detector' = TRUE /\ result' = result
       \/ detector' = detector /\ result' = MsgModel
    /\ op' = "loadModel"
    /\ UNCHANGED everReset
    /\ hands' = <<>>
    /\ UNCHANGED <<countdown, playerMove, aiMove, playerScore, aiScore,
                   cameraPc, cdTimer, phase, pending, gesture,
                   started, captures, wins, loses>>

\* --------------------------------------------------------------- playRound
\* playRound without the countdown !== null test (as in the component's
\* first version, which tested the detector alone).
PlayRound_NoBusyTest ==
    /\ phase = 0
    /\ op' = "playRound"
    /\ UNCHANGED everReset
    /\ hands' = <<>>
    /\ IF ~detector
       THEN UNCHANGED <<detector, countdown, playerMove, aiMove, result, playerScore,
                        aiScore, modelPc, cameraPc, cdTimer, phase, pending, gesture,
                        started, captures, wins, loses>>
       ELSE /\ started < MaxRounds
            /\ playerMove' = Placeholder
            /\ aiMove' = Placeholder
            /\ result' = MsgReady
            /\ countdown' = CountdownStart
            /\ cdTimer' = TimerFor(CountdownStart)
            /\ started' = started + 1
            /\ captures' = 0
            /\ UNCHANGED <<detector, playerScore, aiScore, modelPc, cameraPc, phase,
                           pending, gesture, wins, loses>>

\* playRound without the detector test.
PlayRound_NoDetectorTest ==
    /\ phase = 0
    /\ op' = "playRound"
    /\ UNCHANGED everReset
    /\ hands' = <<>>
    /\ IF countdown # Null
       THEN UNCHANGED <<detector, countdown, playerMove, aiMove, result, playerScore,
                        aiScore, modelPc, cameraPc, cdTimer, phase, pending, gesture,
                        started, captures, wins, loses>>
       ELSE /\ started < MaxRounds
            /\ playerMove' = Placeholder
            /\ aiMove' = Placeholder
            /\ result' = MsgReady
            /\ countdown' = CountdownStart
            /\ cdTimer' = TimerFor(CountdownStart)
            /\ started' = started + 1
            /\ captures' = 0
            /\ UNCHANGED <<detector, playerScore, aiScore, modelPc, cameraPc, phase,
                           pending, gesture, wins, loses>>

PlayRound ==
    /\ phase = 0
    /\ op' = "playRound"
    /\ UNCHANGED everReset
    /\ hands' = <<>>
    /\ IF countdown # Null \/ ~detector
       THEN UNCHANGED <<detector, countdown, playerMove, aiMove, result, playerScore,
                        aiScore, modelPc, cameraPc, cdTimer, phase, pending, gesture,
                        started, captures, wins, loses>>
       ELSE /\ started < MaxRounds
            /\ playerMove' = Placeholder
            /\ aiMove' = Placeholder
            /\ result' = MsgReady
            /\ countdown' = CountdownStart
            /\ cdTimer' = TimerFor(CountdownStart)
            /\ started' = started + 1
            /\ captures' = 0
            /\ UNCHANGED <<detector, playerScore, aiScore, modelPc, cameraPc, phase,
                           pending, gesture, wins, loses>>

\* ------------------------------------------------------------- resetScores
ResetScores ==
    /\ phase = 0
    /\ op' = "resetScores"
    /\ everReset' = TRUE
    /\ hands' = <<>>
    /\ playerScore' = 0
    /\ aiScore' = 0
    /\ countdown' = Null
    /\ cdTimer' = TimerFor(Null)
    /\ playerMove' = Placeholder
    /\ aiMove' = Placeholder
    /\ result' = MsgReset
    /\ wins' = 0
    /\ loses' = 0
    /\ UNCHANGED <<detector, modelPc, cameraPc, phase, pending, gesture,
                   started, captures>>

\* ------------------------------------------------- the countdown's timer
\* () => setCountdown(countdown - 1), then the two effects on countdown:
\* the next timer, and capturePose up to its await.
CountdownTimer ==
    /\ cdTimer = 0
    /\ op' = "countdownTimer"
    /\ UNCHANGED everReset
    /\ hands' = <<>>
    /\ countdown' = countdown - 1
    /\ cdTimer' = TimerFor(countdown - 1)
    /\ IF Captures(countdown, countdown - 1)
       THEN /\ result' = MsgAnalyzing
            /\ pending' = pending \cup
                 {[kind |-> "detect", round |-> started, rem |-> 0,
                   gesture |-> NullGesture]}
            /\ captures' = captures + 1
       ELSE UNCHANGED <<result, pending, captures>>
    /\ UNCHANGED <<detector, playerMove, aiMove, playerScore, aiScore, modelPc, cameraPc,
                   phase, gesture, started, wins, loses>>

\* ------------------------------- capturePose after estimateHands resolved
\* capturePose drawing the AI move together with the player's move, without
\* the reveal's delay (as the component's first version did).
DetectResolve_NoRevealDelay(d, h) ==
    /\ d \in pending
    /\ d.kind = "detect"
    /\ phase = 0
    /\ op' = "detect"
    /\ UNCHANGED everReset
    /\ hands' = h
    /\ IF Len(h) = 0
       THEN /\ result' = MsgNoHand
            /\ pending' = (pending \ {d}) \cup
                 {[kind |-> "idle", round |-> d.round, rem |-> MessageDelay,
                   gesture |-> NullGesture]}
            /\ UNCHANGED <<playerMove, aiMove, playerScore, aiScore, wins, loses>>
       ELSE LET g == classifyGesture(h[1])
            IN  IF g = NullGesture
                THEN /\ result' = MsgUnclear
                     /\ pending' = (pending \ {d}) \cup
                          {[kind |-> "idle", round |-> d.round, rem |-> MessageDelay,
                            gesture |-> NullGesture]}
                     /\ UNCHANGED <<playerMove, aiMove, playerScore, aiScore, wins, loses>>
                ELSE \E aiIdx \in 0..2 :
                     LET aiChoice == MOVES[aiIdx + 1]
                         text == winnerText(g, aiChoice)
                     IN  /\ playerMove' = g
                         /\ aiMove' = aiChoice
                         /\ result' = text
                         /\ playerScore' = IF text = MsgWin THEN playerScore + 1
                                           ELSE playerScore
                         /\ aiScore' = IF text = MsgLose THEN aiScore + 1 ELSE aiScore
                         /\ wins' = IF text = MsgWin THEN wins + 1 ELSE wins
                         /\ loses' = IF text = MsgLose THEN loses + 1 ELSE loses
                         /\ pending' = (pending \ {d}) \cup
                              {[kind |-> "idle", round |-> d.round, rem |-> RoundDelay,
                                gesture |-> NullGesture]}
    /\ UNCHANGED <<detector, countdown, modelPc, cameraPc,
                   cdTimer, phase, gesture, started, captures>>

\* capturePose with the two delays exchanged: the return to Idle is set for
\* 1.2 s and the reveal for 4 s after the capture.
DetectResolve_DelaysExchanged(d, h) ==
    /\ d \in pending
    /\ d.kind = "detect"
    /\ phase = 0
    /\ op' = "detect"
    /\ UNCHANGED everReset
    /\ hands' = h
    /\ IF Len(h) = 0
       THEN /\ result' = MsgNoHand
            /\ pending' = (pending \ {d}) \cup
                 {[kind |-> "idle", round |-> d.round, rem |-> MessageDelay,
                   gesture |-> NullGesture]}
            /\ UNCHANGED playerMove
       ELSE LET g == classifyGesture(h[1])
            IN  IF g = NullGesture
                THEN /\ result' = MsgUnclear
                     /\ pending' = (pending \ {d}) \cup
                          {[kind |-> "idle", round |-> d.round, rem |-> MessageDelay,
                            gesture |-> NullGesture]}
                     /\ UNCHANGED playerMove
                ELSE /\ playerMove' = g
                     /\ result' = MsgChoosing
                     /\ pending' = (pending \ {d}) \cup
                          {[kind |-> "reveal", round |-> d.round, rem |-> RoundDelay,
                            gesture |-> g],
                           [kind |-> "idle", round |-> d.round, rem |-> RevealDelay,
                            gesture |-> NullGesture]}
    /\ UNCHANGED <<detector, countdown, aiMove, playerScore, aiScore, modelPc, cameraPc,
                   cdTimer, phase, gesture, started, captures, wins, loses>>

\* d is the pending call, h the value it resolves with.
DetectResolve(d, h) ==
    /\ d \in pending
    /\ d.kind = "detect"
    /\ phase = 0
    /\ op' = "detect"
    /\ UNCHANGED everReset
    /\ hands' = h
    /\ IF Len(h) = 0
       THEN /\ result' = MsgNoHand
            /\ pending' = (pending \ {d}) \cup
                 {[kind |-> "idle", round |-> d.round, rem |-> MessageDelay,
                   gesture |-> NullGesture]}
            /\ UNCHANGED playerMove
       ELSE LET g == classifyGesture(h[1])
            IN  IF g = NullGesture
                THEN /\ result' = MsgUnclear
                     /\ pending' = (pending \ {d}) \cup
                          {[kind |-> "idle", round |-> d.round, rem |-> MessageDelay,
                            gesture |-> NullGesture]}
                     /\ UNCHANGED playerMove
                ELSE /\ playerMove' = g
                     /\ result' = MsgChoosing
                     /\ pending' = (pending \ {d}) \cup
                          {[kind |-> "reveal", round |-> d.round, rem |-> RevealDelay,
                            gesture |-> g],
                           [kind |-> "idle", round |-> d.round, rem |-> RoundDelay,
                            gesture |-> NullGesture]}
    /\ UNCHANGED <<detector, countdown, aiMove, playerScore, aiScore, modelPc, cameraPc,
                   cdTimer, phase, gesture, started, captures, wins, loses>>

Detect == \E d \in pending : \E h \in Hands : DetectResolve(d, h)

\* ------------------------------------------------- the reveal's callback
\* The reveal without the gesture === aiChoice branch: a tie falls into the
\* else branch and credits the AI.
RevealTimer_TieCreditsAi(t, aiIdx) ==
    /\ t \in pending
    /\ t.kind = "reveal"
    /\ t.rem = 0
    /\ op' = "reveal"
    /\ UNCHANGED everReset
    /\ hands' = <<>>
    /\ LET aiChoice == MOVES[aiIdx + 1]
           text == winnerText(t.gesture, aiChoice)
       IN  /\ aiMove' = aiChoice
           /\ result' = text
           /\ playerScore' = IF text = MsgWin THEN playerScore + 1 ELSE playerScore
           /\ aiScore' = IF text # MsgWin THEN aiScore + 1 ELSE aiScore
           /\ wins' = IF text = MsgWin THEN wins + 1 ELSE wins
           /\ loses' = IF text = MsgLose THEN loses + 1 ELSE loses
    /\ pending' = pending \ {t}
    /\ UNCHANGED <<detector, countdown, playerMove, modelPc, cameraPc, cdTimer, phase,
                   gesture, started, captures>>

\* t is the timer, aiIdx the value of Math.floor(Math.random() * 3).
RevealTimer(t, aiIdx) ==
    /\ t \in pending
    /\ t.kind = "reveal"
    /\ t.rem = 0
    /\ op' = "reveal"
    /\ UNCHANGED everReset
    /\ hands' = <<>>
    /\ LET aiChoice == MOVES[aiIdx + 1]
           text == winnerText(t.gesture, aiChoice)
       IN  /\ aiMove' = aiChoice
           /\ result' = text
           /\ playerScore' = IF text = MsgWin THEN playerScore + 1 ELSE playerScore
           /\ aiScore' = IF text = MsgLose THEN aiScore + 1 ELSE aiScore
           /\ wins' = IF text = MsgWin THEN wins + 1 ELSE wins
           /\ loses' = IF text = MsgLose THEN loses + 1 ELSE loses
    /\ pending' = pending \ {t}
    /\ UNCHANGED <<detector, countdown, playerMove, modelPc, cameraPc, cdTimer, phase,
                   gesture, started, captures>>

Reveal == \E t \in pending : \E aiIdx \in 0..2 : RevealTimer(t, aiIdx)

\* ------------------------------------------- () => setCountdown(null)
IdleTimer(t) ==
    /\ t \in pending
    /\ t.kind = "idle"
    /\ t.rem = 0
    /\ op' = "idle"
    /\ UNCHANGED everReset
    /\ hands' = <<>>
    /\ countdown' = Null
    /\ cdTimer' = TimerFor(Null)
    /\ pending' = pending \ {t}
    /\ UNCHANGED <<detector, playerMove, aiMove, result, playerScore, aiScore, modelPc,
                   cameraPc, phase, gesture, started, captures, wins, loses>>

Idle == \E t \in pending : IdleTimer(t)

\* ------------------------------------------------------------------- time
Timers == { t \in pending : t.kind # "detect" }

\* The ticks until something can happen: a timer falls due, or inputs arrive.
Min(S) == CHOOSE m \in S : \A n \in S : m <= n

NextEvent ==
    Min({ t.rem : t \in Timers }
        \cup (IF cdTimer = NoTimer THEN {} ELSE {cdTimer})
        \cup {InputPeriod - phase})

\* Time passes until the next event; no timer is due.
Tick ==
    /\ cdTimer # 0
    /\ \A t \in Timers : t.rem > 0
    /\ cdTimer # NoTimer \/ Timers # {} \/ phase # 0
    /\ phase' = (phase + NextEvent) % InputPeriod
    /\ op' = "tick"
    /\ UNCHANGED everReset
    /\ hands' = <<>>
    /\ cdTimer' = IF cdTimer = NoTimer THEN NoTimer ELSE cdTimer - NextEvent
    /\ pending' = { IF t.kind = "detect" THEN t ELSE [t EXCEPT !.rem = t.rem - NextEvent]
                    : t \in pending }
    /\ UNCHANGED <<detector, countdown, playerMove, aiMove, result, playerScore, aiScore,
                   modelPc, cameraPc, gesture, started, captures, wins, loses>>

Next ==
    \/ SetupCamera
    \/ LoadModel
    \/ PlayRound
    \/ ResetScores
    \/ CountdownTimer
    \/ Detect
    \/ Reveal
    \/ Idle
    \/ Tick

Spec == Init /\ [][Next]_vars

\* Every timer that is due fires, time passes, and every estimateHands call
\* resolves.
Fairness ==
    /\ WF_vars(CountdownTimer)
    /\ WF_vars(Detect)
    /\ WF_vars(Reveal)
    /\ WF_vars(Idle)
    /\ WF_vars(Tick)

SpecFair == Spec /\ Fairness

\* The executions in which resetScores is never invoked.
NextNoReset ==
    \/ SetupCamera
    \/ LoadModel
    \/ PlayRound
    \/ CountdownTimer
    \/ Detect
    \/ Reveal
    \/ Idle
    \/ Tick

SpecNoReset == Init /\ [][NextNoReset]_vars

\* ------------------------------------------- classifyGesture on its own
\* The poses classifyGesture is applied to: 20, 21 or 22 landmarks, two
\* wrist heights, the thumb above or below the threshold, and each of the
\* four other tips just above, on and just below it.
TipOffsets == {Threshold - 1, Threshold, Threshold + 1}

ClassifyPoses ==
    { MkPose(n, wy, wy - ty, wy - iy, wy - my, wy - ry, wy - py, 0) :
        n \in {NumLandmarks - 1, NumLandmarks, NumLandmarks + 1},
        wy \in {60, 240},
        ty \in {0, Threshold + 1},
        iy \in TipOffsets, my \in TipOffsets, ry \in TipOffsets, py \in TipOffsets }

InitClassify ==
    /\ detector = TRUE
    /\ countdown = Null
    /\ playerMove = Placeholder
    /\ aiMove = Placeholder
    /\ result = MsgStart
    /\ playerScore = 0
    /\ aiScore = 0
    /\ modelPc = "done"
    /\ cameraPc = "done"
    /\ cdTimer = NoTimer
    /\ phase = 0
    /\ pending = {}
    /\ hands \in { <<p>> : p \in ClassifyPoses }
    /\ gesture = Unset
    /\ op = "mount"
    /\ started = 0
    /\ captures = 0
    /\ wins = 0
    /\ loses = 0
    /\ everReset = FALSE

\* const gesture = classifyGesture(hands[0].keypoints)
Classify ==
    /\ op = "mount"
    /\ op' = "classify"
    /\ UNCHANGED everReset
    /\ gesture' = classifyGesture(hands[1])
    /\ UNCHANGED <<detector, countdown, playerMove, aiMove, result, playerScore, aiScore,
                   modelPc, cameraPc, cdTimer, phase, pending, hands, started, captures,
                   wins, loses>>

NextClassify == Classify

SpecClassify == InitClassify /\ [][NextClassify]_vars

\* ======================================================================
\* Properties
\* ======================================================================
\* A round is in flight.
InFlight == countdown # Null

\* The timers and continuations of P, without their remaining time.
Keys(P) == { <<t.kind, t.round>> : t \in P }

\* The timers and continuations a step creates.
Created == { t \in pending' : <<t.kind, t.round>> \notin Keys(pending) }

\* The displayed values and the schedule.
Shown == <<countdown, playerMove, aiMove, result, playerScore, aiScore>>

\* C1: playRound invoked while a round is in flight (countdown not null, in
\* every phase) changes no displayed value and schedules nothing.
C1_PlayRoundIgnoredInFlight ==
    [][(op' = "playRound" /\ InFlight)
        => /\ UNCHANGED Shown
           /\ UNCHANGED <<cdTimer, pending, started>>]_vars

\* playRound has just been invoked during the reveal phase of a round.
C1_Witness ==
    /\ op = "playRound"
    /\ countdown = 0
    /\ \E t \in pending : t.kind = "reveal" /\ t.round = started

\* C2: while a round is in flight, every pending timer and every pending
\* detection belongs to that round (the latest one started).
C2_OnlyTheRoundInFlightIsPending ==
    InFlight => \A p \in pending : p.round = started

\* C3: the reveal of a round (the AI move, the outcome, the score) is
\* scheduled only by the step that commits that round's player move, with a
\* positive delay and without touching the AI move or the score; and the AI
\* move and the score are written only by a due reveal of such a round.
C3_CaptureBeforeReveal ==
    [][/\ \A t \in Created :
            t.kind = "reveal"
            => /\ op' = "detect"
               /\ \E d \in pending \ pending' : d.kind = "detect" /\ d.round = t.round
               /\ t.gesture \in {"Rock", "Paper", "Scissors"}
               /\ playerMove' = t.gesture
               /\ t.rem > 0
               /\ UNCHANGED <<aiMove, playerScore, aiScore>>
       /\ (\/ aiMove' # aiMove /\ aiMove' # Placeholder
           \/ playerScore' > playerScore
           \/ aiScore' > aiScore)
          => /\ op' = "reveal"
             /\ \E t \in pending \ pending' : t.kind = "reveal" /\ t.rem = 0]_vars

\* A reveal has just drawn the AI move of the round in flight.
C3_Witness ==
    /\ op = "reveal"
    /\ countdown = 0
    /\ playerMove \in {"Rock", "Paper", "Scissors"}
    /\ aiMove \in {"Rock", "Paper", "Scissors"}
    /\ \E t \in pending : t.kind = "idle" /\ t.round = started

\* The state resetScores leaves.
AfterReset ==
    /\ playerScore = 0
    /\ aiScore = 0
    /\ countdown = Null
    /\ playerMove = Placeholder
    /\ aiMove = Placeholder
    /\ result = MsgReset

\* C4: resetScores zeroes both counters, returns to Idle and restores the
\* placeholders, and what it leaves stays as it is until a new round is
\* started: the interrupted round changes nothing any more.
C4_ResetClearsTheRound ==
    [][/\ op' = "resetScores" => AfterReset'
       /\ (AfterReset /\ op' \notin {"playRound", "setupCamera", "loadModel"})
          => AfterReset']_vars

\* C5: playerScore counts the reveals whose outcome was WIN since the last
\* resetScores, aiScore those whose outcome was AI WINS; a tie changes
\* neither; after resetScores both are 0.
C5_ScoreLedger ==
    /\ [](playerScore = wins /\ aiScore = loses)
    /\ [][/\ (op' = "reveal" /\ result' = MsgTie) => UNCHANGED <<playerScore, aiScore>>
          /\ op' = "resetScores" => (playerScore' = 0 /\ aiScore' = 0)]_vars

\* Two rounds were revealed since the last resetScores: one won, one lost.
C5_Witness ==
    /\ playerScore = 1
    /\ aiScore = 1
    /\ op = "reveal"

\* The keypoints capturePose has just handled.
Pose == hands[1]

\* The reveal timer of the round whose detection has just resolved.
RevealScheduled == \E t \in Created : t.kind = "reveal"

\* C6 as stated: a pose whose landmark count is not 21 ends the round like
\* an absent pose, with the no-hand message and no reveal.
C6_WrongCountIsNoHand ==
    [][(op' = "detect" /\ Len(hands') = 1 /\ Len(hands'[1]) # NumLandmarks)
        => /\ result' = MsgNoHand
           /\ ~RevealScheduled
           /\ UNCHANGED <<playerMove, aiMove, playerScore, aiScore>>]_vars

\* C6 amended: an absent pose ends the round with the no-hand message; a
\* pose of fewer than 21 landmarks ends it with the unclear-gesture message;
\* neither schedules a reveal or changes a label or the score.  A pose of
\* more than 21 landmarks is classified as its first 21 landmarks are.
C6_WrongCount ==
    [][op' = "detect"
        => /\ UNCHANGED <<aiMove, playerScore, aiScore>>
           /\ Len(hands') = 0
              => /\ result' = MsgNoHand
                 /\ ~RevealScheduled
                 /\ UNCHANGED playerMove
           /\ (Len(hands') = 1 /\ Len(hands'[1]) < NumLandmarks)
              => /\ result' = MsgUnclear
                 /\ ~RevealScheduled
                 /\ UNCHANGED playerMove
           /\ (Len(hands') = 1 /\ Len(hands'[1]) > NumLandmarks)
              => LET g == classifyGesture(SubSeq(hands'[1], 1, NumLandmarks))
                 IN  IF g = NullGesture
                     THEN result' = MsgUnclear /\ ~RevealScheduled
                     ELSE playerMove' = g /\ result' = MsgChoosing /\ RevealScheduled]_vars

\* A pose of 20 landmarks has just been handled.
C6_Witness ==
    /\ op = "detect"
    /\ Len(hands) = 1
    /\ Len(Pose) = NumLandmarks - 1
    /\ result = MsgUnclear

\* The fingers of a pose that are extended: tips whose y is strictly less
\* than the wrist's y minus T, that is, at least T + 1 above the wrist.
Fingers == {8, 12, 16, 20}

Extended(p) == { i \in Fingers : KP(p, 0).y - KP(p, i).y >= Threshold + 1 }

\* The decision table, by the set of extended fingers.
Table(E) ==
    CASE E = {} -> "Rock"
      [] Cardinality(E) >= 3 -> "Paper"
      [] E = {8, 12} -> "Scissors"
      [] OTHER -> NullGesture

\* C7: a pose of 21 landmarks is classified by the decision table over the
\* extended flags of the tips 8, 12, 16 and 20.
C7_DecisionTable ==
    (op = "classify" /\ Len(Pose) = NumLandmarks) => gesture = Table(Extended(Pose))

\* Two fingers other than index and middle are extended: unclear.
C7_Witness ==
    /\ op = "classify"
    /\ Len(Pose) = NumLandmarks
    /\ Extended(Pose) = {8, 16}
    /\ gesture = NullGesture

\* p with landmark i moved to (x, y).
Moved(p, i, x, y) == [p EXCEPT ![i + 1] = [x |-> x, y |-> y]]

\* C8: a tip is extended exactly when its y is strictly less than
\* wristY - 40 (a tip at wristY - 40 is not), and the result depends only on
\* the y of the landmarks 0, 8, 12, 16 and 20: moving the thumb tip or any
\* other landmark, or changing any x, leaves it as it is.
C8_ThresholdAndIndependence ==
    (op = "classify" /\ Len(Pose) = NumLandmarks)
    => /\ Threshold = 40
       /\ gesture = Table({ i \in Fingers : KP(Pose, i).y < KP(Pose, 0).y - 40 })
       /\ \A i \in (0..20) \ ({0} \cup Fingers) : \A y \in {-500, 0, 500} :
            classifyGesture(Moved(Pose, i, KP(Pose, i).x, y)) = gesture
       /\ \A i \in 0..20 : \A x \in {-500, 500} :
            classifyGesture(Moved(Pose, i, x, KP(Pose, i).y)) = gesture

\* Index and middle are above the threshold, ring and pinky exactly on it.
C8_Witness ==
    /\ op = "classify"
    /\ Len(Pose) = NumLandmarks
    /\ KP(Pose, 16).y = KP(Pose, 0).y - Threshold
    /\ KP(Pose, 20).y = KP(Pose, 0).y - Threshold
    /\ gesture = "Scissors"

Range(f) == { f[i] : i \in DOMAIN f }

\* The outcome of the spec's beats-relation.
Beats == { <<"Rock", "Scissors">>, <<"Scissors", "Paper">>, <<"Paper", "Rock">> }

Outcome(p, a) ==
    IF p = a THEN MsgTie
    ELSE IF <<p, a>> \in Beats THEN MsgWin
    ELSE MsgLose

\* C9: the reveal of a round whose player move is p, drawing the AI move a,
\* shows exactly the outcome of (p, a): a tie when they are equal, a win for
\* the three pairs of the beats-relation, a loss for the three others; and
\* the outcome of a winning pair swapped is a loss.
C9_Outcome ==
    /\ [][\A t \in pending \ pending' :
            (op' = "reveal" /\ t.kind = "reveal")
            => /\ result' = Outcome(t.gesture, aiMove')
               /\ result' = MsgWin => Outcome(aiMove', t.gesture) = MsgLose]_vars
    /\ [](\A p \in Range(MOVES) : \A a \in Range(MOVES) :
            /\ winnerText(p, a) = Outcome(p, a)
            /\ winnerText(p, a) = MsgWin => winnerText(a, p) = MsgLose)

\* Scissors against Paper has just been revealed as a win.
C9_Witness ==
    /\ op = "reveal"
    /\ playerMove = "Scissors"
    /\ aiMove = "Paper"
    /\ result = MsgWin
    /\ playerScore = 1

\* C10: the countdown starts at 3 and each firing of its timer takes it down
\* by exactly 1, never below 0; capturePose is called in the step that takes
\* the countdown to 0 and in no other, once per round.
C10_CountdownThenCapture ==
    /\ [](countdown \in {Null, 0, 1, 2, 3} /\ captures <= 1)
    /\ [](countdown \in 1..3 => captures = 0)
    /\ [](countdown = 0 => captures = 1)
    /\ [][/\ op' = "countdownTimer" => (countdown \in 1..3 /\ countdown' = countdown - 1)
          /\ (countdown' # countdown /\ countdown' # Null)
             => \/ countdown = Null /\ countdown' = CountdownStart /\ op' = "playRound"
                \/ countdown' = countdown - 1 /\ op' = "countdownTimer"
          /\ (\E d \in Created : d.kind = "detect")
             <=> (countdown' = 0 /\ countdown # 0)
          /\ \A d \in Created : d.kind = "detect" => d.round = started
          /\ captures' # captures
             => \/ captures' = 0 /\ op' = "playRound"
                \/ captures' = captures + 1 /\ countdown' = 0 /\ countdown = 1]_vars

\* The countdown of the second round has reached 0 and its capture is pending.
C10_Witness ==
    /\ op = "countdownTimer"
    /\ countdown = 0
    /\ started = 2
    /\ captures = 1
    /\ \E d \in pending : d.kind = "detect" /\ d.round = started

\* The detection that has just resolved was that of the round in flight.
OwnDetect == \E d \in pending \ pending' : d.kind = "detect" /\ d.round = started

\* C11: when the capture of the round in flight yields no hand or an unclear
\* gesture, the message is shown, no reveal is scheduled, the score is
\* unchanged, both labels are at the placeholder, and the return to Idle is
\* scheduled after the display delay; that timer sets countdown to null.
C11_FailedCapture ==
    [][/\ (op' = "detect" /\ InFlight /\ OwnDetect /\ result' \in {MsgNoHand, MsgUnclear})
          => /\ ~RevealScheduled
             /\ UNCHANGED <<playerScore, aiScore>>
             /\ playerMove' = Placeholder
             /\ aiMove' = Placeholder
             /\ \E t \in Created :
                  t.kind = "idle" /\ t.round = started /\ t.rem = MessageDelay
       /\ op' = "idle" => countdown' = Null]_vars

\* isReady: the detector is loaded and no round is in flight.
isReady == detector /\ countdown = Null

\* C12: playRound changes nothing unless the detector is ready and the
\* countdown is null; when it is accepted it sets both labels to the
\* placeholder and the countdown to 3 and leaves both counters as they are.
C12_PlayRoundAccepted ==
    [][op' = "playRound"
        => IF isReady
           THEN /\ playerMove' = Placeholder
                /\ aiMove' = Placeholder
                /\ countdown' = CountdownStart
                /\ cdTimer' = CountdownDelay
                /\ started' = started + 1
                /\ UNCHANGED <<playerScore, aiScore, pending>>
           ELSE /\ UNCHANGED Shown
                /\ UNCHANGED <<cdTimer, pending, started>>]_vars

\* A second round has just been accepted, after a round the player won.
C12_Witness ==
    /\ op = "playRound"
    /\ countdown = CountdownStart
    /\ cdTimer = CountdownDelay
    /\ started = 2
    /\ playerScore = 1
    /\ playerMove = Placeholder
    /\ aiMove = Placeholder

\* The messages that end a round.
Outcomes == {MsgNoHand, MsgUnclear, MsgWin, MsgLose, MsgTie}

\* A step that ends the round in flight ends a completed round: the
\* countdown had reached 0, the capture was made and resolved, the reveal (if
\* one was scheduled) has fired, and the step is the round's own return to
\* Idle.  The outcome's message is on display, unless setupCamera's failure
\* has overwritten it.
EndsCompleted ==
    /\ countdown = 0
    /\ captures = 1
    /\ \A p \in pending : p.round = started => p.kind = "idle"
    /\ result \in Outcomes \cup {MsgCamera}
    /\ op' = "idle"
    /\ \E t \in pending \ pending' : t.kind = "idle" /\ t.round = started

\* Something of the round in flight is scheduled: its countdown timer, its
\* detection or one of its timers.
Scheduled == cdTimer # NoTimer \/ \E p \in pending : p.round = started

\* C13 as stated: no operation aborts a started round; it leaves the
\* in-flight states only as a completed round.
C13_NothingAbortsARound ==
    [][(InFlight /\ ~InFlight') => EndsCompleted]_vars

\* C13 amended: as long as resetScores has not been invoked, a started round
\* is never aborted and never left with nothing scheduled.
C13_NothingButResetAbortsARound ==
    /\ [][(~everReset' /\ InFlight /\ ~InFlight') => EndsCompleted]_vars
    /\ []((~everReset /\ InFlight) => Scheduled)

\* A round that was lost has just returned to Idle; resetScores was never
\* invoked.
C13_Witness ==
    /\ ~everReset
    /\ op = "idle"
    /\ countdown = Null
    /\ result = MsgLose
    /\ aiScore = 1

\* C14: every round in flight eventually returns to Idle, provided due
\* timers fire and estimateHands resolves.
C14_EventuallyIdle == InFlight ~> ~InFlight

\* A round that ended in a tie has just returned to Idle by its own timer.
C14_Witness ==
    /\ op = "idle"
    /\ countdown = Null
    /\ result = MsgTie
    /\ pending = {}
    /\ ~everReset

\* C15: a step that increases a counter increases exactly one of them by 1
\* and is a reveal taken while countdown = 0 with the player move committed;
\* a counter decreases only to 0, by resetScores.
C15_ScoreWriters ==
    [][/\ (playerScore' > playerScore \/ aiScore' > aiScore)
          => /\ playerScore' + aiScore' = playerScore + aiScore + 1
             /\ playerScore' >= playerScore
             /\ aiScore' >= aiScore
             /\ op' = "reveal"
             /\ countdown = 0
             /\ playerMove \in Range(MOVES)
       /\ (playerScore' < playerScore \/ aiScore' < aiScore)
          => /\ op' = "resetScores"
             /\ playerScore' = 0
             /\ aiScore' = 0]_vars

\* C16: the AI label is shown only next to a shown player label.
C16_AiLabelNeedsPlayerLabel == aiMove # Placeholder => playerMove # Placeholder

\* The timer that has just fired was a return to Idle of a round whose reveal
\* is still pending.
IdleBeforeReveal ==
    \E t \in pending \ pending' :
        /\ t.kind = "idle"
        /\ \E r \in pending : r.kind = "reveal" /\ r.round = t.round

\* playRound has just been accepted.
Accepted == op' = "playRound" /\ countdown = Null /\ countdown' = CountdownStart

\* C17: with resetScores never invoked, a round's reveal is set 1.2 s and its
\* return to Idle 4 s after the capture and the reveal fires first; in Idle
\* nothing of any round is pending; and when playRound is accepted no
\* reveal of an earlier round remains to be applied.
C17_RevealBeforeIdle ==
    /\ [][/\ RevealScheduled
             => \E r \in Created : \E i \in Created :
                  /\ r.kind = "reveal" /\ r.rem = RevealDelay
                  /\ i.kind = "idle" /\ i.rem = RoundDelay
                  /\ i.round = r.round
                  /\ r.rem < i.rem
          /\ op' = "idle" => ~IdleBeforeReveal
          /\ Accepted => pending = {}]_vars
    /\ [](countdown = Null => (pending = {} /\ cdTimer = NoTimer))

\* A second round has just been accepted after the first one was won and
\* its point applied.
C17_Witness ==
    /\ op = "playRound"
    /\ countdown = CountdownStart
    /\ started = 2
    /\ playerScore = 1
    /\ wins = 1
    /\ result = MsgReady
    /\ pending = {}
    /\ ~everReset

====
